---- MODULE Spec2Model ----
(***************************************************************************)
(* Model of the Amadeus travel-data integration layer                      *)
(* (src/amadeus_client.py): the lazily constructed process-wide client,    *)
(* the three search tools, their request construction, their rendering of  *)
(* the provider's answer and their error handling.                         *)
(*                                                                         *)
(* Text is modelled as a sequence of lines, a line as the sequence of the  *)
(* pieces (literals and interpolated values) of the f-string that builds   *)
(* it; "\n".join is the sequence of lines.  A Python dict is a function    *)
(* whose DOMAIN is the set of keys present.                                *)
(***************************************************************************)
EXTENDS Integers, Sequences, FiniteSets, TLC

VARIABLES
    env,              \* os.environ, restricted to the two credential names
    _amadeus_wrapper,  \* the global wrapper: NoWrapper or a wrapper id
    clients,          \* number of provider Client objects constructed so far
    frame,            \* per caller: position and locals of its tool invocation
    firstHandle       \* history: handle of the first successful get_amadeus_client()

vars == <<env, _amadeus_wrapper, clients, frame, firstHandle>>

----------------------------------------------------------------------------
(* Bounds of the model *)

NumCallers == 2
MaxItems == 6
MaxResults == 2

(* Program constants *)

NoWrapper == 0
TopN == 5
DefaultMaxResults == 5
DefaultAdults == 1

Callers == 1..NumCallers

NONE == "<None>"

KEY == "AMADEUS_API_KEY"
SECRET == "AMADEUS_API_SECRET"
EnvNames == {KEY, SECRET}

Min(a, b) == IF a <= b THEN a ELSE b
Max(a, b) == IF a >= b THEN a ELSE b

(* Python truthiness of an Optional[str] *)
Truthy(v) == v /= NONE /\ v /= ""

(* dict.get(key, default) *)
Get(d, k, default) == IF k \in DOMAIN d THEN d[k] ELSE default

EmptyDict == [k \in {} |-> NONE]

(* seq[:k + 1]: a cut one place too far *)
SliceToInclusive(s, k) == SubSeq(s, 1, Min(k + 1, Len(s)))

(* seq[:k] *)
SliceTo(s, k) ==
    IF k >= 0 THEN SubSeq(s, 1, Min(k, Len(s)))
              ELSE SubSeq(s, 1, Max(0, Len(s) + k))

(* str: the characters of a sliced string, joined back into one string *)
RECURSIVE Str(_)
Str(cs) == IF cs = <<>> THEN "" ELSE Head(cs) \o Str(Tail(cs))

(* s[a:b] on a string held as its characters, 0 <= a <= b *)
Slice(cs, a, b) == SubSeq(cs, a + 1, Min(b, Len(cs)))

(* enumerate(seq, 1) *)
Enumerate(s) == [i \in 1..Len(s) |-> <<i, s[i]>>]

RECURSIVE Flatten(_)
Flatten(ss) == IF ss = <<>> THEN <<>> ELSE Head(ss) \o Flatten(Tail(ss))

SeqsUpTo(S, n) == UNION {[1..k -> S] : k \in 0..n}

----------------------------------------------------------------------------
(* The tools and their arguments *)

CHEAPEST == "get_cheapest_travel_days"
OFFERS == "get_flight_offers"
AIRPORT == "get_airport_code"
Tools == {CHEAPEST, OFFERS, AIRPORT}

Origin == "LAX"
Destination == "CDG"

CheapestArgs ==
    {[origin |-> Origin, destination |-> Destination,
      departure_date |-> d, duration |-> u] :
        d \in {NONE, "2026-06-15"}, u \in {NONE, "1-7"}}

OfferArgs ==
    {[origin |-> Origin, destination |-> Destination,
      departure_date |-> "2026-06-15", adults |-> DefaultAdults,
      return_date |-> r, travel_class |-> c, max_results |-> m,
      nonstop |-> n, currency |-> "USD"] :
        r \in {NONE, "2026-06-22"}, c \in {"ECONOMY", "BUSINESS"},
        m \in (0..MaxResults) \cup {DefaultMaxResults}, n \in BOOLEAN}

AirportArgs == {[city_name |-> "Paris"]}

Args(tool) ==
    CASE tool = CHEAPEST -> CheapestArgs
      [] tool = OFFERS -> OfferArgs
      [] tool = AIRPORT -> AirportArgs

(* The call that leaves every optional argument at its default *)
DefaultArgs(tool) ==
    CASE tool = CHEAPEST ->
            {a \in CheapestArgs : a.departure_date = NONE /\ a.duration = NONE}
      [] tool = OFFERS ->
            {a \in OfferArgs : /\ a.return_date = NONE
                               /\ a.travel_class = "ECONOMY"
                               /\ a.max_results = DefaultMaxResults
                               /\ ~a.nonstop}
      [] tool = AIRPORT -> AirportArgs

(* datetime.now() + timedelta(days=30), formatted %Y-%m-%d, for the call *)
(* date of the model                                                     *)
CallDate == "2026-05-02"
ThirtyDaysLater == [d \in {CallDate} |-> "2026-06-01"]

----------------------------------------------------------------------------
(* Request construction: the endpoint and the keyword parameters handed to *)
(* the provider SDK.  A key of the params dict is a parameter of the       *)
(* outgoing request; a parameter passed as None is a key mapped to NONE.   *)

CheapestRequest(a) ==
    LET departure_date == IF ~Truthy(a.departure_date)
                          THEN ThirtyDaysLater[CallDate]
                          ELSE a.departure_date
    IN [endpoint |-> "shopping.flight_dates",
        params |-> [origin |-> a.origin,
                    destination |-> a.destination,
                    departureDate |-> departure_date,
                    duration |-> a.duration]]

(* d[k] = v on a dict *)
With(d, k, v) == [x \in DOMAIN d \cup {k} |-> IF x = k THEN v ELSE d[x]]

OfferRequest(a) ==
    LET p0 == [originLocationCode |-> a.origin,
               destinationLocationCode |-> a.destination,
               departureDate |-> a.departure_date,
               adults |-> a.adults,
               currencyCode |-> a.currency,
               max |-> a.max_results]
        p1 == IF Truthy(a.return_date) THEN With(p0, "returnDate", a.return_date) ELSE p0
        p2 == IF a.nonstop THEN With(p1, "nonStop", "true") ELSE p1
        p3 == IF Truthy(a.travel_class) /\ a.travel_class /= "ECONOMY"
              THEN With(p2, "travelClass", a.travel_class) ELSE p2
    IN [endpoint |-> "shopping.flight_offers_search", params |-> p3]

AirportRequest(a) ==
    [endpoint |-> "reference_data.locations",
     params |-> [keyword |-> a.city_name, subType |-> "AIRPORT"]]

BuildRequest(tool, a) ==
    CASE tool = CHEAPEST -> CheapestRequest(a)
      [] tool = OFFERS -> OfferRequest(a)
      [] tool = AIRPORT -> AirportRequest(a)

----------------------------------------------------------------------------
(* What the provider call can do: raise ResponseError, raise any other     *)
(* exception, or return a response whose data is a list of records with    *)
(* optional fields.                                                        *)

DepAt == <<"2","0","2","6","-","0","6","-","1","5","T","0","8",":","0","0",":","0","0">>
RetAt == <<"2","0","2","6","-","0","6","-","2","2","T","1","5",":","3","0",":","0","0">>
NA == <<"N","/","A">>

DateItems ==
    {[departureDate |-> "2026-07-01", returnDate |-> "2026-07-08",
      price |-> [total |-> "450", currency |-> "USD"]],
     [departureDate |-> "2026-07-03", price |-> [total |-> "475"]]}

OfferItems ==
    {[price |-> [total |-> "450.00", currency |-> "EUR"],
      itineraries |->
        << [duration |-> "PT11H",
            segments |-> << [departure |-> [iataCode |-> "LAX", at |-> DepAt],
                             arrival |-> [iataCode |-> "CDG", at |-> RetAt],
                             carrierCode |-> "AF"] >>],
           [duration |-> "PT14H",
            segments |-> << [departure |-> [iataCode |-> "CDG", at |-> RetAt],
                             arrival |-> [iataCode |-> "JFK"],
                             carrierCode |-> "DL"],
                            [departure |-> [iataCode |-> "JFK"],
                             arrival |-> [iataCode |-> "LAX"],
                             carrierCode |-> "AA"] >>] >>],
     [itineraries |-> << [segments |-> << EmptyDict >>], [segments |-> <<>>] >>]}

AirportItems ==
    {[iataCode |-> "CDG", name |-> "CHARLES DE GAULLE",
      address |-> [cityName |-> "PARIS", countryName |-> "FRANCE"]],
     [iataCode |-> "ORY", address |-> [countryName |-> "FRANCE"]]}

Items(tool) ==
    CASE tool = CHEAPEST -> DateItems
      [] tool = OFFERS -> OfferItems
      [] tool = AIRPORT -> AirportItems

Failures ==
    {[kind |-> "ResponseError", text |-> "[400] INVALID FORMAT", data |-> <<>>],
     [kind |-> "Exception", text |-> "Connection reset by peer", data |-> <<>>]}

Response(items) == [kind |-> "ok", text |-> "", data |-> items]

Outcomes(tool) ==
    Failures \cup {Response(d) : d \in SeqsUpTo(Items(tool), MaxItems)}

(* The outcomes of a call with at most one item in the answer *)
FewOutcomes(tool) == {o \in Outcomes(tool) : Len(o.data) <= 1}

----------------------------------------------------------------------------
(* Rendering.  A tool's value is [how, text]: how it left the tool         *)
(* ("return" or "raise") and the text, a sequence of lines.                *)

Returned(lines) == [how |-> "return", text |-> lines]
Raised(message) == [how |-> "raise", text |-> <<message>>]
NoResult == [how |-> "none", text |-> <<>>]

CredentialsMessage ==
    <<"Amadeus credentials not found. ",
      "Please set AMADEUS_API_KEY and AMADEUS_API_SECRET in your .env file">>

ErrorDoing(tool) ==
    CASE tool = CHEAPEST -> "Error searching for cheapest travel days: "
      [] tool = OFFERS -> "Error searching for flight offers: "
      [] tool = AIRPORT -> "Error searching for airports: "

(* A handler that lets the provider error leave the tool *)
HandleResponseErrorReraises(tool, description) ==
    Raised(<<"Amadeus API error: ", description>>)

(* except ResponseError as error: return f"Amadeus API error: {error.description}" *)
HandleResponseError(tool, description) ==
    Returned(<< <<"Amadeus API error: ", description>> >>)

(* No catch-all handler: the exception leaves the tool *)
HandleExceptionPropagates(tool, message) == Raised(message)

(* except Exception as e: return f"Error <doing X>: {str(e)}" *)
HandleException(tool, message) ==
    Returned(<< <<ErrorDoing(tool)>> \o message >>)

DateEntry(idx, offer) ==
    LET date == Get(offer, "departureDate", "N/A")
        return_date == Get(offer, "returnDate", "N/A")
        price == Get(Get(offer, "price", EmptyDict), "total", "N/A")
        currency == Get(Get(offer, "price", EmptyDict), "currency", "")
    IN IF return_date /= "N/A"
       THEN <<ToString(idx), ". ", date, " to ", return_date, ": ", currency, " ", price>>
       ELSE <<ToString(idx), ". ", date, " (one-way): ", currency, " ", price>>

FormatDates(a, data) ==
    IF data = <<>>
    THEN << <<"No flight data found for route ", a.origin, " to ", a.destination, ".">> >>
    ELSE LET top == Enumerate(SliceTo(data, TopN))
             results == [i \in DOMAIN top |-> DateEntry(top[i][1], top[i][2])]
             header == <<"Cheapest travel dates from ", a.origin, " to ", a.destination, ":">>
         IN <<header>> \o results

ItineraryLines(itin_idx, itinerary, a) ==
    LET segments == Get(itinerary, "segments", <<>>)
        duration == Get(itinerary, "duration", "N/A")
        flight_type == IF itin_idx = 0 THEN "Outbound" ELSE "Return"
    IN IF segments = <<>> THEN <<>>
       ELSE LET first_segment == segments[1]
                last_segment == segments[Len(segments)]
                departure == Get(first_segment, "departure", EmptyDict)
                arrival == Get(last_segment, "arrival", EmptyDict)
                airline == Get(first_segment, "carrierCode", "N/A")
                dep_time == Get(departure, "at", NA)
                stops == Len(segments) - 1
                stops_text == IF stops = 0 THEN <<"non-stop">>
                                           ELSE <<ToString(stops), " stop(s)">>
            IN << <<"  ", flight_type, ": ", Get(departure, "iataCode", a.origin),
                    " → ", Get(arrival, "iataCode", a.destination),
                    " on ", Str(Slice(dep_time, 0, 10)),
                    " at ", Str(Slice(dep_time, 11, 16)),
                    " (Airline: ", airline, ", ">> \o stops_text \o <<")">>,
                  <<"  Duration: ", duration>> >>

OfferBlock(idx, offer, a) ==
    LET price == Get(Get(offer, "price", EmptyDict), "total", "N/A")
        currency_code == Get(Get(offer, "price", EmptyDict), "currency", a.currency)
        itineraries == Get(offer, "itineraries", <<>>)
        details == [i \in DOMAIN itineraries |-> ItineraryLines(i - 1, itineraries[i], a)]
    IN << <<>>, <<"Option ", ToString(idx), ": ", currency_code, " ", price>> >>
       \o Flatten(details)

FormatOffers(a, data) ==
    IF data = <<>>
    THEN << <<"No flight offers found for route ", a.origin, " to ", a.destination,
              " on ", a.departure_date, ".">> >>
    ELSE LET trip_type == IF Truthy(a.return_date) THEN "round-trip" ELSE "one-way"
             header == <<"Flight offers (", trip_type, ") from ", a.origin, " to ",
                         a.destination, ":">>
             top == Enumerate(SliceTo(data, a.max_results))
             results == [i \in DOMAIN top |-> OfferBlock(top[i][1], top[i][2], a)]
         IN <<header>> \o Flatten(results)

(* str.strip() of a line whose outer pieces may be blank *)
RECURSIVE Strip(_)
Strip(line) ==
    IF line = <<>> THEN <<>>
    ELSE IF line[Len(line)] \in {"", " "} THEN Strip(SubSeq(line, 1, Len(line) - 1))
    ELSE IF Head(line) \in {"", " "} THEN Strip(Tail(line))
    ELSE line

AirportEntry(idx, location) ==
    LET iata_code == Get(location, "iataCode", "N/A")
        name == Get(location, "name", "N/A")
        city == Get(Get(location, "address", EmptyDict), "cityName", "")
        country == Get(Get(location, "address", EmptyDict), "countryName", "")
        location_str == IF city /= "" /\ country /= ""
                        THEN <<city, ", ", country>> ELSE <<"">>
    IN Strip(<<ToString(idx), ". ", iata_code, " - ", name, " ">> \o location_str)

FormatAirports(a, data) ==
    IF data = <<>>
    THEN << <<"No airports found for '", a.city_name, "'.">> >>
    ELSE LET top == Enumerate(SliceTo(data, TopN))
             results == [i \in DOMAIN top |-> AirportEntry(top[i][1], top[i][2])]
             header == <<"Airports for '", a.city_name, "':">>
         IN <<header>> \o results

(* The first item is read before the answer is tested for emptiness: an *)
(* empty answer ends in the catch-all handler.                          *)
FormatWithoutEmptyCheck(tool, a, data) ==
    IF data = <<>>
    THEN << <<ErrorDoing(tool), "list index out of range">> >>
    ELSE CASE tool = CHEAPEST -> FormatDates(a, data)
           [] tool = OFFERS -> FormatOffers(a, data)
           [] tool = AIRPORT -> FormatAirports(a, data)

Format(tool, a, data) ==
    CASE tool = CHEAPEST -> FormatDates(a, data)
      [] tool = OFFERS -> FormatOffers(a, data)
      [] tool = AIRPORT -> FormatAirports(a, data)

(* The tool's value once the provider call has ended with outcome o *)
ToolValue(tool, a, o) ==
    CASE o.kind = "ResponseError" -> HandleResponseError(tool, o.text)
      [] o.kind = "Exception" -> HandleException(tool, <<o.text>>)
      [] o.kind = "ok" -> Returned(Format(tool, a, o.data))

(* A failed call is issued again *)
RetryOnFailure(o) == IF o.kind = "ok" THEN "done" ELSE "request"

(* Where the tool goes after the provider call has ended: every path of   *)
(* the try statement returns.                                             *)
AfterReply(o) == "done"

----------------------------------------------------------------------------
(* The state machine.  A caller's frame holds its position in the tool     *)
(* (pc) and the locals of the invocation; reads counts the credential      *)
(* reads of the invocation and late records that get_amadeus_client() had  *)
(* already returned a handle when the invocation began.                    *)

(* A credential is unset (os.environ.get gives None) or set *)
EnvValues == {NONE, "key"}

IdleFrame ==
    [pc |-> "idle", tool |-> "", args |-> EmptyDict,
     api_key |-> NONE, api_secret |-> NONE, reads |-> 0,
     made |-> NoWrapper, client |-> NoWrapper,
     sent |-> <<>>, response |-> Response(<<>>), result |-> NoResult,
     late |-> FALSE]

Init ==
    /\ env \in [EnvNames -> EnvValues]
    /\ _amadeus_wrapper = NoWrapper
    /\ clients = 0
    /\ frame = [t \in Callers |-> IdleFrame]
    /\ firstHandle = NoWrapper

(* The agent invokes a tool: the try block is entered. *)
Begin(t, tool, a) ==
    /\ frame[t].pc = "idle"
    /\ frame' = [frame EXCEPT ![t] =
                    [IdleFrame EXCEPT !.pc = "check", !.tool = tool, !.args = a,
                                      !.late = (firstHandle /= NoWrapper)]]
    /\ UNCHANGED <<env, _amadeus_wrapper, clients, firstHandle>>

(* get_amadeus_client: if _amadeus_wrapper is None *)
CheckWrapper(t) ==
    /\ frame[t].pc = "check"
    /\ frame' = [frame EXCEPT ![t].pc =
                    IF _amadeus_wrapper = NoWrapper THEN "read_key" ELSE "return_client"]
    /\ UNCHANGED <<env, _amadeus_wrapper, clients, firstHandle>>

(* AmadeusClientWrapper.__init__: api_key = os.environ.get("AMADEUS_API_KEY") *)
ReadKey(t) ==
    /\ frame[t].pc = "read_key"
    /\ frame' = [frame EXCEPT ![t].pc = "read_secret",
                              ![t].api_key = env[KEY],
                              ![t].reads = @ + 1]
    /\ UNCHANGED <<env, _amadeus_wrapper, clients, firstHandle>>

(* if not api_key and not api_secret *)
CredentialsBothMissing(api_key, api_secret) == ~Truthy(api_key) /\ ~Truthy(api_secret)

(* if not api_key or not api_secret *)
CredentialsMissing(api_key, api_secret) == ~Truthy(api_key) \/ ~Truthy(api_secret)

(* AmadeusClientWrapper.__init__ from the read of the secret on: the check *)
(* of the two values, then either the ValueError, which leaves             *)
(* get_amadeus_client and reaches the tool's handlers, or the Client.      *)
Construct(t) ==
    /\ frame[t].pc = "read_secret"
    /\ LET api_secret == env[SECRET]
       IN IF CredentialsMissing(frame[t].api_key, api_secret)
          THEN /\ frame' = [frame EXCEPT
                              ![t].pc = "done",
                              ![t].api_secret = api_secret,
                              ![t].reads = @ + 1,
                              ![t].result = HandleException(frame[t].tool, CredentialsMessage)]
               /\ clients' = clients
          ELSE /\ frame' = [frame EXCEPT
                              ![t].pc = "assign",
                              ![t].api_secret = api_secret,
                              ![t].reads = @ + 1,
                              ![t].made = clients + 1]
               /\ clients' = clients + 1
    /\ UNCHANGED <<env, _amadeus_wrapper, firstHandle>>

(* _amadeus_wrapper = AmadeusClientWrapper() *)
AssignWrapper(t) ==
    /\ frame[t].pc = "assign"
    /\ _amadeus_wrapper' = frame[t].made
    /\ frame' = [frame EXCEPT ![t].pc = "return_client"]
    /\ UNCHANGED <<env, clients, firstHandle>>

(* return _amadeus_wrapper.get_client() *)
ReturnClient(t) ==
    /\ frame[t].pc = "return_client"
    /\ frame' = [frame EXCEPT ![t].pc = "request", ![t].client = _amadeus_wrapper]
    /\ firstHandle' = IF firstHandle = NoWrapper THEN _amadeus_wrapper ELSE firstHandle
    /\ UNCHANGED <<env, _amadeus_wrapper, clients>>

(* The tool builds its parameters and issues the provider request. *)
SendRequest(t) ==
    /\ frame[t].pc = "request"
    /\ frame' = [frame EXCEPT
                    ![t].pc = "wait",
                    ![t].sent = Append(@, BuildRequest(frame[t].tool, frame[t].args))]
    /\ UNCHANGED <<env, _amadeus_wrapper, clients, firstHandle>>

(* The provider call ends with outcome o; the tool formats its value. *)
ProviderReply(t, o) ==
    /\ frame[t].pc = "wait"
    /\ frame' = [frame EXCEPT
                    ![t].pc = AfterReply(o),
                    ![t].response = o,
                    ![t].result = ToolValue(frame[t].tool, frame[t].args, o)]
    /\ UNCHANGED <<env, _amadeus_wrapper, clients, firstHandle>>

(* The caller has taken the tool's value; the frame is gone. *)
Finish(t) ==
    /\ frame[t].pc = "done"
    /\ frame' = [frame EXCEPT ![t] = IdleFrame]
    /\ UNCHANGED <<env, _amadeus_wrapper, clients, firstHandle>>

(* The process environment changes (load_dotenv(override=True), *)
(* os.environ[...] = ...).                                      *)
SetEnv(name, value) ==
    /\ env[name] /= value
    /\ env' = [env EXCEPT ![name] = value]
    /\ UNCHANGED <<_amadeus_wrapper, clients, frame, firstHandle>>

----------------------------------------------------------------------------
(* Spec: the callers run concurrently; each tool is called with its        *)
(* optional arguments left out and answers hold at most one item.          *)

Call(t) == \E tool \in Tools : \E a \in DefaultArgs(tool) : Begin(t, tool, a)

Reply(t) ==
    /\ frame[t].pc = "wait"
    /\ \E o \in FewOutcomes(frame[t].tool) : ProviderReply(t, o)

Environment == \E name \in EnvNames : \E value \in EnvValues : SetEnv(name, value)

Next ==
    \/ \E t \in Callers :
          \/ Call(t)
          \/ CheckWrapper(t)
          \/ ReadKey(t)
          \/ Construct(t)
          \/ AssignWrapper(t)
          \/ ReturnClient(t)
          \/ SendRequest(t)
          \/ Reply(t)
          \/ Finish(t)
    \/ Environment

Spec == Init /\ [][Next]_vars

(* SpecSeq: one invocation at a time, over every argument combination and *)
(* every answer of up to MaxItems items.                                  *)

CallSeq(t) ==
    /\ \A u \in Callers : frame[u].pc = "idle"
    /\ \E tool \in Tools : \E a \in Args(tool) : Begin(t, tool, a)

ReplySeq(t) ==
    /\ frame[t].pc = "wait"
    /\ \E o \in Outcomes(frame[t].tool) : ProviderReply(t, o)

NextSeq ==
    \/ \E t \in Callers :
          \/ CallSeq(t)
          \/ CheckWrapper(t)
          \/ ReadKey(t)
          \/ Construct(t)
          \/ AssignWrapper(t)
          \/ ReturnClient(t)
          \/ SendRequest(t)
          \/ ReplySeq(t)
          \/ Finish(t)
    \/ Environment

SpecSeq == Init /\ [][NextSeq]_vars

----------------------------------------------------------------------------
(* Vocabulary of the properties *)

(* Caller t's construction read both credentials and one of them was absent *)
Missing(t) ==
    /\ frame[t].reads = 2
    /\ (frame[t].api_key = NONE \/ frame[t].api_secret = NONE)

(* Caller t's provider call has ended and the tool has its value *)
Answered(t) == frame[t].pc = "done" /\ frame[t].sent /= <<>>

FaultPrefix(tool) ==
    CASE tool = CHEAPEST -> "Error searching for cheapest travel days: "
      [] tool = OFFERS -> "Error searching for flight offers: "
      [] tool = AIRPORT -> "Error searching for airports: "

CredentialsLine(tool) ==
    <<FaultPrefix(tool),
      "Amadeus credentials not found. ",
      "Please set AMADEUS_API_KEY and AMADEUS_API_SECRET in your .env file">>

NoDataPrefix(tool) ==
    CASE tool = CHEAPEST -> "No flight data found for route "
      [] tool = OFFERS -> "No flight offers found for route "
      [] tool = AIRPORT -> "No airports found for '"

HeaderPrefix(tool) ==
    CASE tool = CHEAPEST -> "Cheapest travel dates from "
      [] tool = OFFERS -> "Flight offers ("
      [] tool = AIRPORT -> "Airports for '"

(* Which of the four renderings a text is, read off its opening literal *)
Rendering(text) ==
    LET p == text[1][1]
    IN CASE p = "Amadeus API error: " -> "provider_error"
         [] p \in {FaultPrefix(tool) : tool \in Tools} -> "fault"
         [] p \in {NoDataPrefix(tool) : tool \in Tools} -> "no_data"
         [] p \in {HeaderPrefix(tool) : tool \in Tools} -> "list"
         [] OTHER -> "unknown"

(* The numbered entries of a list rendering: the lines after the header,  *)
(* for flight offers the "Option" lines among them.                       *)
EntryLines(tool, text) ==
    IF tool = OFFERS
    THEN SelectSeq(Tail(text), LAMBDA l : l /= <<>> /\ l[1] = "Option ")
    ELSE Tail(text)

EntryNumber(tool, line) == IF tool = OFFERS THEN line[2] ELSE line[1]

(* The piece of an entry that tells the items of the model apart, and the *)
(* same value read from the item.                                         *)
EntryKey(tool, line) == IF tool = OFFERS THEN line[6] ELSE line[3]

ItemKey(tool, item) ==
    CASE tool = CHEAPEST -> Get(item, "departureDate", "N/A")
      [] tool = OFFERS -> Get(Get(item, "price", EmptyDict), "total", "N/A")
      [] tool = AIRPORT -> Get(item, "iataCode", "N/A")

ClaimedLimit(tool, a) == IF tool = OFFERS THEN a.max_results ELSE 5

----------------------------------------------------------------------------
(* C1: concurrent first calls of get_amadeus_client() construct exactly   *)
(* one client, and every caller receives that one handle: at most one     *)
(* Client is ever constructed and no two callers hold different handles.  *)
C1_SingleFlight ==
    /\ clients <= 1
    /\ \A t, u \in Callers :
          (frame[t].client /= NoWrapper /\ frame[u].client /= NoWrapper)
              => frame[t].client = frame[u].client

C3_FailuresAreReturned ==
    \A t \in Callers :
        (Answered(t) /\ frame[t].response.kind \in {"ResponseError", "Exception"})
            => /\ frame[t].result.how = "return"
               /\ frame[t].result.text /= <<>>
               /\ frame[t].result.text[1] /= <<>>

C3_Witness ==
    \E t \in Callers :
        /\ Answered(t)
        /\ frame[t].response.kind = "ResponseError"
        /\ frame[t].result.how = "return"

(* C4: for each combination of missing credentials (key, secret, both)    *)
(* construction fails with the credentials error, the failing call        *)
(* creates no Client and issues no request, and the global wrapper stays  *)
(* unset.                                                                 *)
C4_MissingCredentials ==
    \A t \in Callers :
        Missing(t) => /\ frame[t].pc = "done"
                      /\ SubSeq(frame[t].result.text[1], 2, 3) = CredentialsMessage
                      /\ frame[t].made = NoWrapper
                      /\ frame[t].client = NoWrapper
                      /\ frame[t].sent = <<>>
                      /\ clients = 0
                      /\ _amadeus_wrapper = NoWrapper

C4_Witness ==
    \E t \in Callers :
        /\ Missing(t)
        /\ frame[t].api_key = "key"
        /\ frame[t].api_secret = NONE
        /\ frame[t].pc = "done"

(* C5: once get_amadeus_client() has returned a handle, every call that   *)
(* begins later reads no credential, constructs nothing and receives that *)
(* same handle.                                                           *)
C5_HandleIsStable ==
    \A t \in Callers :
        frame[t].late => /\ frame[t].reads = 0
                         /\ frame[t].made = NoWrapper
                         /\ frame[t].client \in {NoWrapper, firstHandle}

(* C6: the text a tool returns follows from the outcome of the provider   *)
(* call, in four renderings that no text shares: a provider error gives   *)
(* "Amadeus API error: " and the description; any other fault gives       *)
(* "Error <doing X>: " and the message; an answer without items gives the *)
(* tool's no-data sentence; an answer with items gives the header and     *)
(* then entries numbered from 1.                                          *)
C6_Renderings ==
    \A t \in Callers :
        Answered(t) =>
            LET tool == frame[t].tool
                o == frame[t].response
                text == frame[t].result.text
                entries == EntryLines(tool, text)
            IN /\ frame[t].result.how = "return"
               /\ text /= <<>>
               /\ o.kind = "ResponseError" =>
                     /\ text = << <<"Amadeus API error: ", o.text>> >>
                     /\ Rendering(text) = "provider_error"
               /\ o.kind = "Exception" =>
                     /\ text = << <<FaultPrefix(tool), o.text>> >>
                     /\ Rendering(text) = "fault"
               /\ (o.kind = "ok" /\ o.data = <<>>) =>
                     /\ Len(text) = 1
                     /\ text[1][1] = NoDataPrefix(tool)
                     /\ Rendering(text) = "no_data"
               /\ (o.kind = "ok" /\ o.data /= <<>>) =>
                     /\ text[1][1] = HeaderPrefix(tool)
                     /\ Rendering(text) = "list"
                     /\ \A k \in DOMAIN entries :
                           EntryNumber(tool, entries[k]) = ToString(k)

C6_Witness ==
    \E t \in Callers :
        /\ Answered(t)
        /\ frame[t].response.kind = "ok"
        /\ frame[t].response.data = <<>>
        /\ Rendering(frame[t].result.text) = "no_data"

(* C7: an optional argument the caller left out (duration of              *)
(* get_cheapest_travel_days, return_date of get_flight_offers) is not a   *)
(* parameter of the request at all.                                       *)
C7_AbsentArgumentNotSent ==
    \A t \in Callers : \A i \in DOMAIN frame[t].sent :
        LET params == frame[t].sent[i].params
        IN /\ (frame[t].tool = CHEAPEST /\ frame[t].args.duration = NONE)
                  => "duration" \notin DOMAIN params
           /\ (frame[t].tool = OFFERS /\ frame[t].args.return_date = NONE)
                  => "returnDate" \notin DOMAIN params

(* C8: for an answer of n >= 1 items and the tool's limit L (5, or        *)
(* max_results for flight offers) the text lists exactly min(n, L)        *)
(* entries, entry k is item k of the answer, and entry k carries the      *)
(* number k.                                                              *)
C8_FirstItemsInOrder ==
    \A t \in Callers :
        (Answered(t) /\ frame[t].response.kind = "ok" /\ frame[t].response.data /= <<>>)
            => LET tool == frame[t].tool
                   data == frame[t].response.data
                   entries == EntryLines(tool, frame[t].result.text)
                   m == Min(Len(data), ClaimedLimit(tool, frame[t].args))
               IN /\ Len(entries) = m
                  /\ \A k \in 1..m :
                        /\ EntryNumber(tool, entries[k]) = ToString(k)
                        /\ EntryKey(tool, entries[k]) = ItemKey(tool, data[k])

C8_Witness ==
    \E t \in Callers :
        /\ Answered(t)
        /\ frame[t].tool = CHEAPEST
        /\ frame[t].response.kind = "ok"
        /\ Len(frame[t].response.data) > 5
        /\ Len(EntryLines(CHEAPEST, frame[t].result.text)) = 5

(* C9: an invocation issues at most one provider request; when the        *)
(* request fails the tool is done with its error text after that one      *)
(* request.                                                               *)
C9_NoRetry ==
    \A t \in Callers :
        /\ Len(frame[t].sent) <= 1
        /\ frame[t].response.kind /= "ok"
              => /\ frame[t].pc = "done"
                 /\ Len(frame[t].sent) = 1
                 /\ Rendering(frame[t].result.text) \in {"provider_error", "fault"}

C9_Witness ==
    \E t \in Callers :
        /\ Answered(t)
        /\ frame[t].response.kind = "Exception"
        /\ Len(frame[t].sent) = 1

(* C10: a failed construction is not remembered and leaves the wrapper    *)
(* unset, so a call that finds it unset reads the credentials again; the  *)
(* first call that finds both present succeeds, and the handle it returns *)
(* is the global handle from then on.                                     *)
C10_FailureNotRemembered ==
    /\ \A t \in Callers :
          /\ Missing(t) => (frame[t].made = NoWrapper /\ frame[t].client = NoWrapper)
          /\ (frame[t].reads = 2 /\ ~Missing(t)) => frame[t].made /= NoWrapper
          /\ (frame[t].made /= NoWrapper /\ frame[t].client /= NoWrapper)
                => frame[t].client = frame[t].made
    /\ firstHandle /= NoWrapper => _amadeus_wrapper = firstHandle

====
